---- MODULE Spec2Model ----
(***************************************************************************)
(* PorcupineDemo (demo/python/getweather_mic.py): the wake-word loop of    *)
(* run() as a state machine.  One action per statement of run() that       *)
(* touches a resource, the recording or the detector; pc is the position   *)
(* of the thread that executes run().                                      *)
(*                                                                         *)
(* The collaborators (pvporcupine, pyaudio, soundfile, the weather and     *)
(* speech services) are outside the repository: each call either returns   *)
(* or raises, chosen nondeterministically.                                 *)
(*                                                                         *)
(* Spec       run() called on the main thread, as main() does; the         *)
(*            operator's SIGINT raises KeyboardInterrupt in that thread    *)
(*            while the try block (lines 85-123) executes, once per run.   *)
(* SpecThread run() executed by a worker started with Thread.start();      *)
(*            Python delivers KeyboardInterrupt to the main thread only,   *)
(*            so the worker sees nothing of the stop request.              *)
(* SpecRerun  run() called again on the same object once it has returned.  *)
(* SpecMain   main() from the parsed arguments on: the device listing, the *)
(*            validation of the keyword and sensitivity lists, the run.    *)
(***************************************************************************)
EXTENDS Integers, Sequences, FiniteSets, TLC

\* Bounds of the model.
MaxFrames == 3      \* successful audio_stream.read calls per run
FrameLength == 2    \* porcupine.frame_length, samples per frame
NumChunks == 2      \* distinct byte buffers the device can deliver
NumKeywords == 2    \* len(keyword_paths)
MaxRuns == 2        \* SpecRerun: run() calls on one PorcupineDemo object
MaxRerunFrames == 1 \* SpecRerun: successful reads per run
MaxMainFrames == 1  \* SpecMain: successful reads of the run main() starts

NO_MATCH == -1      \* porcupine.process: no keyword in this frame
SampleRate == 16000 \* porcupine.sample_rate
DefaultSensitivity == "0.5"   \* [0.5] * len(keyword_paths)
GivenSensitivity == "0.7"     \* a value passed with --sensitivities

VARIABLES
    pc,               \* position in run()
    output_path,      \* self._output_path: "None" or a path
    recorded_frames,  \* self._recorded_frames
    porcupine,        \* local porcupine: "None", "live", "deleted"
    pa,               \* local pa: "None", "live", "terminated"
    audio_stream,     \* local audio_stream: "None", "open", "closed"
    pcm,              \* local pcm: the unpacked frame
    exc,              \* exception leaving run(): "none" or its name
    cause,            \* what ended the try block: "none" or the exception raised
    reads,            \* byte buffers audio_stream.read returned, in order
    read_calls,       \* audio_stream.read calls, failed ones included
    submitted,        \* frames passed to porcupine.process, in order
    detections,       \* values porcupine.process returned, in order
    reactions,        \* detections acted on: [index, at] (at = frames read so far)
    events,           \* resource calls, in order
    written,          \* sample sequences soundfile.write stored
    interruptAt,      \* pc at which KeyboardInterrupt was raised, or "none"
    interruptCalls,   \* read_calls when KeyboardInterrupt was raised
    stopRequested,    \* SpecThread: the control thread got the stop request
    readsAfterStop,   \* SpecThread: reads completed since, saturating at 2
    stream_config,    \* rate and frames_per_buffer pa.open was called with
    stale_accesses,   \* uses of porcupine (method or property) after delete()
    args,             \* main(): the parsed arguments, list lengths (0 = None)
    keyword_paths,    \* self._keyword_paths
    sensitivities,    \* self._sensitivities
    listed,           \* show_audio_devices() calls completed
    main_exc,         \* exception main() raised itself: "none" or its name
    runs,             \* run() calls made on this object
    frameCap          \* successful reads the device delivers per run (a bound)

vars == <<pc, output_path, recorded_frames, porcupine, pa, audio_stream, pcm,
          exc, cause, reads, read_calls, submitted, detections, reactions,
          events, written, interruptAt, interruptCalls, stopRequested,
          readsAfterStop, stream_config, stale_accesses, args, keyword_paths,
          sensitivities, listed, main_exc, runs, frameCap>>

\* Variables only the method body writes (unchanged by the stop bookkeeping).
threadVars == <<stopRequested, readsAfterStop>>
interruptVars == <<interruptAt, interruptCalls>>
\* What the caller of run() fixes; run() reads some of it and writes none.
callerVars == <<args, keyword_paths, sensitivities, listed, main_exc, runs,
                frameCap>>
useVars == <<stream_config, stale_accesses>>

MainPcs == {"main", "show_devices", "main_done"}
StartupPcs == {"create", "pyaudio", "open"}
LoopPcs == {"read", "append", "process", "get_weather", "extract", "tts"}
ReactionPcs == {"get_weather", "extract", "tts"}
TryPcs == StartupPcs \cup LoopPcs
FinallyPcs == {"finally_delete", "finally_close", "finally_terminate", "finally_write"}

----
\* Pure helpers.

Min(a, b) == IF a < b THEN a ELSE b

\* Byte i of the p-th buffer the device can deliver (values across 0..255).
ByteAt(p, i) == (p * 127 + i * 85) % 256

\* audio_stream.read(frame_length): frame_length 16-bit samples = 2 bytes each.
Chunk(p) == [i \in 1..(2 * FrameLength) |-> ByteAt(p, i)]
DeviceChunks == {Chunk(p) : p \in 1..NumChunks}

\* One "h" item: two bytes, little endian, two's complement.
ToInt16(u) == IF u >= 32768 THEN u - 65536 ELSE u

\* Variant: the format built one item short, "h" * (frame_length - 1).
UnpackShort(bytes) ==
    [k \in 1..(FrameLength - 1) |->
        ToInt16(bytes[2 * k - 1] + 256 * bytes[2 * k])]

\* struct.unpack_from("h" * frame_length, pcm)
Unpack(bytes) ==
    [k \in 1..FrameLength |-> ToInt16(bytes[2 * k - 1] + 256 * bytes[2 * k])]

\* ndarray.astype(np.int16): wraps modulo 2^16.
AsInt16(x) == ((x + 32768) % 65536) - 32768

\* np.concatenate(frames, axis=0)
RECURSIVE Concatenate(_)
Concatenate(frames) ==
    IF frames = <<>> THEN <<>>
    ELSE Head(frames) \o Concatenate(Tail(frames))

\* np.concatenate(self._recorded_frames, axis=0).astype(np.int16)
RecordedAudio(frames) ==
    LET flat == Concatenate(frames)
    IN  [i \in 1..Len(flat) |-> AsInt16(flat[i])]

\* porcupine.process returns NO_MATCH or an index into the keywords.
DetectorResults == {NO_MATCH} \cup (0..(Len(keyword_paths) - 1))

\* Variant: the comparison written as `result > 0` (keyword 0 never reacts).
IsMatchStrict(r) == r > 0

\* Variant: the comparison written as `result >= -1` (the sentinel reacts).
IsMatchInclusive(r) == r >= NO_MATCH

\* if result >= 0:
IsMatch(r) == r >= 0

\* self._output_path is not None
Recording == output_path # "None"

\* A use of the detector object (porcupine.process, .frame_length,
\* .sample_rate); it is counted when it comes after porcupine.delete().
UsePorcupine ==
    stale_accesses' =
        IF porcupine = "deleted" THEN stale_accesses + 1 ELSE stale_accesses

\* [0.5] * len(keyword_paths), and a list given on the command line.
DefaultSensitivities(n) == [i \in 1..n |-> DefaultSensitivity]
GivenSensitivities(n) == [i \in 1..n |-> GivenSensitivity]

\* The keyword model files of a run with n keywords.
KeywordPaths(n) == [i \in 1..n |-> i]

----
\* Exceptions.

\* Variant: a bare `except:` clause, every exception is swallowed.
RaiseSwallowAll(e) ==
    /\ pc' = "finally_delete"
    /\ cause' = e
    /\ exc' = "none"

\* Variant: no except clause, the interrupt leaves run() like any other error.
RaiseUncaught(e) ==
    /\ pc' = "finally_delete"
    /\ cause' = e
    /\ exc' = e

\* An exception raised inside the try block: `except KeyboardInterrupt` swallows
\* the interrupt, anything else stays pending while the finally block runs.
Raise(e) ==
    /\ pc' = "finally_delete"
    /\ cause' = e
    /\ exc' = IF e = "KeyboardInterrupt" THEN "none" ELSE e

----
Init ==
    /\ pc = "create"
    /\ output_path \in {"None", "out.wav"}
    /\ recorded_frames = <<>>
    /\ porcupine = "None"
    /\ pa = "None"
    /\ audio_stream = "None"
    /\ pcm = <<>>
    /\ exc = "none"
    /\ cause = "none"
    /\ reads = <<>>
    /\ read_calls = 0
    /\ submitted = <<>>
    /\ detections = <<>>
    /\ reactions = <<>>
    /\ events = <<>>
    /\ written = <<>>
    /\ interruptAt = "none"
    /\ interruptCalls = 0
    /\ stopRequested = FALSE
    /\ readsAfterStop = 0
    /\ stream_config = [rate |-> 0, frames_per_buffer |-> 0]
    /\ stale_accesses = 0
    /\ args = [show_audio_devices |-> FALSE, keywords |-> 0,
               keyword_paths |-> NumKeywords, sensitivities |-> 0]
    /\ keyword_paths = KeywordPaths(NumKeywords)
    /\ sensitivities = DefaultSensitivities(NumKeywords)
    /\ listed = 0
    /\ main_exc = "none"
    /\ runs = 1
    /\ frameCap = MaxFrames

----
\* Startup (lines 78-105).

\* Variant: the detector is not created before the audio backend is set up.
CreateDeferred ==
    /\ pc = "create"
    /\ pc' = "pyaudio"
    /\ UNCHANGED <<output_path, recorded_frames, porcupine, pa, audio_stream,
                   pcm, exc, cause, reads, read_calls, submitted, detections,
                   reactions, events, written, interruptVars, threadVars,
                   callerVars, useVars>>

\* porcupine = pvporcupine.create(...)
Create ==
    /\ pc = "create"
    /\ \/ /\ porcupine' = "live"
          /\ events' = Append(events, "create")
          /\ pc' = "pyaudio"
          /\ UNCHANGED <<exc, cause>>
       \/ /\ Raise("InitError")
          /\ UNCHANGED <<porcupine, events>>
    /\ UNCHANGED <<output_path, recorded_frames, pa, audio_stream, pcm, reads,
                   read_calls, submitted, detections, reactions, written,
                   interruptVars, threadVars, callerVars, useVars>>

\* pa = pyaudio.PyAudio()
PyAudio ==
    /\ pc = "pyaudio"
    /\ \/ /\ pa' = "live"
          /\ events' = Append(events, "pyaudio")
          /\ pc' = "open"
          /\ UNCHANGED <<exc, cause>>
       \/ /\ Raise("BackendError")
          /\ UNCHANGED <<pa, events>>
    /\ UNCHANGED <<output_path, recorded_frames, porcupine, audio_stream, pcm,
                   reads, read_calls, submitted, detections, reactions, written,
                   interruptVars, threadVars, callerVars, useVars>>

\* audio_stream = pa.open(rate=porcupine.sample_rate, ...), then the banner.
Open ==
    /\ pc = "open"
    /\ UsePorcupine
    /\ \/ /\ audio_stream' = "open"
          /\ stream_config' =
                [rate |-> SampleRate, frames_per_buffer |-> FrameLength]
          /\ events' = Append(events, "open")
          /\ pc' = "read"
          /\ UNCHANGED <<exc, cause>>
       \/ /\ Raise("DeviceError")
          /\ UNCHANGED <<audio_stream, events, stream_config>>
    /\ UNCHANGED <<output_path, recorded_frames, porcupine, pa, pcm, reads,
                   read_calls, submitted, detections, reactions, written,
                   interruptVars, threadVars, callerVars>>

----
\* The loop (lines 107-123).

\* pcm = audio_stream.read(porcupine.frame_length); pcm = struct.unpack_from(...)
Read ==
    /\ pc = "read"
    /\ read_calls' = read_calls + 1
    /\ UsePorcupine
    /\ \/ /\ Len(reads) < frameCap
          /\ \E bytes \in DeviceChunks :
                /\ reads' = Append(reads, bytes)
                /\ pcm' = Unpack(bytes)
          /\ readsAfterStop' =
                IF stopRequested THEN Min(readsAfterStop + 1, 2) ELSE readsAfterStop
          /\ pc' = "append"
          /\ UNCHANGED <<exc, cause>>
       \/ /\ Raise("StreamError")
          /\ UNCHANGED <<reads, pcm, readsAfterStop>>
    /\ UNCHANGED <<output_path, recorded_frames, porcupine, pa, audio_stream,
                   submitted, detections, reactions, events, written,
                   interruptVars, stopRequested, callerVars, stream_config>>

\* Variant: the loop continues after the append, the frame is never processed.
RecordFrameSkipsDetector ==
    /\ pc = "append"
    /\ recorded_frames' =
          IF Recording THEN Append(recorded_frames, pcm) ELSE recorded_frames
    /\ pc' = "read"
    /\ UNCHANGED <<output_path, porcupine, pa, audio_stream, pcm, exc, cause,
                   reads, read_calls, submitted, detections, reactions, events,
                   written, interruptVars, threadVars, callerVars, useVars>>

\* if self._output_path is not None: self._recorded_frames.append(pcm)
RecordFrame ==
    /\ pc = "append"
    /\ recorded_frames' =
          IF Recording THEN Append(recorded_frames, pcm) ELSE recorded_frames
    /\ pc' = "process"
    /\ UNCHANGED <<output_path, porcupine, pa, audio_stream, pcm, exc, cause,
                   reads, read_calls, submitted, detections, reactions, events,
                   written, interruptVars, threadVars, callerVars, useVars>>

\* result = porcupine.process(pcm); if result >= 0: print('[%s] Detected %s' ...)
Process ==
    /\ pc = "process"
    /\ UsePorcupine
    /\ submitted' = Append(submitted, pcm)
    /\ \/ \E r \in DetectorResults :
             /\ detections' = Append(detections, r)
             /\ IF IsMatch(r)
                THEN /\ reactions' =
                           Append(reactions, [index |-> r, at |-> Len(reads)])
                     /\ pc' = "get_weather"
                ELSE /\ reactions' = reactions
                     /\ pc' = "read"
             /\ UNCHANGED <<exc, cause>>
       \/ /\ Raise("DetectorError")
          /\ UNCHANGED <<detections, reactions>>
    /\ UNCHANGED <<output_path, recorded_frames, porcupine, pa, audio_stream,
                   pcm, reads, read_calls, events, written, interruptVars,
                   threadVars, callerVars, stream_config>>

\* weather = get_weather()
GetWeather ==
    /\ pc = "get_weather"
    /\ \/ /\ pc' = "extract"
          /\ UNCHANGED <<exc, cause>>
       \/ Raise("ReactionError")
    /\ UNCHANGED <<output_path, recorded_frames, porcupine, pa, audio_stream,
                   pcm, reads, read_calls, submitted, detections, reactions,
                   events, written, interruptVars, threadVars,
                   callerVars, useVars>>

\* spoken_weather = extract_spoken_weather(weather); print(spoken_weather)
ExtractSpokenWeather ==
    /\ pc = "extract"
    /\ \/ /\ pc' = "tts"
          /\ UNCHANGED <<exc, cause>>
       \/ Raise("ReactionError")
    /\ UNCHANGED <<output_path, recorded_frames, porcupine, pa, audio_stream,
                   pcm, reads, read_calls, submitted, detections, reactions,
                   events, written, interruptVars, threadVars,
                   callerVars, useVars>>

\* text_to_speech(spoken_weather), then back to `while True`
TextToSpeech ==
    /\ pc = "tts"
    /\ \/ /\ pc' = "read"
          /\ UNCHANGED <<exc, cause>>
       \/ Raise("ReactionError")
    /\ UNCHANGED <<output_path, recorded_frames, porcupine, pa, audio_stream,
                   pcm, reads, read_calls, submitted, detections, reactions,
                   events, written, interruptVars, threadVars,
                   callerVars, useVars>>

\* SIGINT while the main thread is inside the try block: except KeyboardInterrupt.
KeyboardInterrupt ==
    /\ pc \in TryPcs
    /\ interruptAt = "none"
    /\ interruptAt' = pc
    /\ interruptCalls' = read_calls
    /\ Raise("KeyboardInterrupt")
    /\ UNCHANGED <<output_path, recorded_frames, porcupine, pa, audio_stream,
                   pcm, reads, read_calls, submitted, detections, reactions,
                   events, written, threadVars, callerVars, useVars>>

----
\* The finally block (lines 127-139).

\* Variant: the finally block without the porcupine.delete() statement.
FinallyDeleteOmitted ==
    /\ pc = "finally_delete"
    /\ pc' = "finally_close"
    /\ UNCHANGED <<output_path, recorded_frames, porcupine, pa, audio_stream,
                   pcm, exc, cause, reads, read_calls, submitted, detections,
                   reactions, events, written, interruptVars, threadVars,
                   callerVars, useVars>>

\* if porcupine is not None: porcupine.delete()
FinallyDelete ==
    /\ pc = "finally_delete"
    /\ IF porcupine # "None"
       THEN /\ porcupine' = "deleted"
            /\ events' = Append(events, "delete")
       ELSE UNCHANGED <<porcupine, events>>
    /\ pc' = "finally_close"
    /\ UNCHANGED <<output_path, recorded_frames, pa, audio_stream, pcm, exc,
                   cause, reads, read_calls, submitted, detections, reactions,
                   written, interruptVars, threadVars, callerVars, useVars>>

\* Variant: close() called without the `is not None` test.
FinallyCloseUnguarded ==
    /\ pc = "finally_close"
    /\ audio_stream' = "closed"
    /\ events' = Append(events, "close")
    /\ pc' = "finally_terminate"
    /\ UNCHANGED <<output_path, recorded_frames, porcupine, pa, pcm, exc, cause,
                   reads, read_calls, submitted, detections, reactions, written,
                   interruptVars, threadVars, callerVars, useVars>>

\* if audio_stream is not None: audio_stream.close()
FinallyClose ==
    /\ pc = "finally_close"
    /\ IF audio_stream # "None"
       THEN /\ audio_stream' = "closed"
            /\ events' = Append(events, "close")
       ELSE UNCHANGED <<audio_stream, events>>
    /\ pc' = "finally_terminate"
    /\ UNCHANGED <<output_path, recorded_frames, porcupine, pa, pcm, exc, cause,
                   reads, read_calls, submitted, detections, reactions, written,
                   interruptVars, threadVars, callerVars, useVars>>

\* if pa is not None: pa.terminate()
FinallyTerminate ==
    /\ pc = "finally_terminate"
    /\ IF pa # "None"
       THEN /\ pa' = "terminated"
            /\ events' = Append(events, "terminate")
       ELSE UNCHANGED <<pa, events>>
    /\ pc' = "finally_write"
    /\ UNCHANGED <<output_path, recorded_frames, porcupine, audio_stream, pcm,
                   exc, cause, reads, read_calls, submitted, detections,
                   reactions, written, interruptVars, threadVars,
                   callerVars, useVars>>

\* The last statement of the finally block: `guard` is the test in front of it,
\* `failure` what a failing soundfile.write leaves pending.  The sample rate
\* argument is read from porcupine before the call: on None that is an
\* AttributeError, after delete() a use of the deleted detector.
WriteRecording(guard, failure) ==
    /\ pc = "finally_write"
    /\ IF guard
       THEN IF porcupine = "None"
            THEN /\ exc' = "AttributeError"
                 /\ UNCHANGED <<written, events, stale_accesses>>
            ELSE /\ UsePorcupine
                 /\ \/ /\ written' =
                             Append(written, RecordedAudio(recorded_frames))
                       /\ events' = Append(events, "write")
                       /\ UNCHANGED exc
                    \/ /\ exc' = failure
                       /\ events' = Append(events, "write_failed")
                       /\ UNCHANGED written
       ELSE UNCHANGED <<written, events, exc, stale_accesses>>
    /\ pc' = "done"
    /\ UNCHANGED <<output_path, recorded_frames, porcupine, pa, audio_stream,
                   pcm, cause, reads, read_calls, submitted, detections,
                   reactions, interruptVars, threadVars, callerVars,
                   stream_config>>

\* Variant: the write guarded by the output path alone, not by the frame count.
FinallyWriteUnguarded == WriteRecording(Recording, "IOError")

\* Variant: the write wrapped in a try/except that drops its error.
FinallyWriteSilent ==
    WriteRecording(Recording /\ Len(recorded_frames) > 0, exc)

\* if self._output_path is not None and len(self._recorded_frames) > 0:
\*     soundfile.write(self._output_path, recorded_audio, ...)
\* A failing write raises out of the finally block and replaces what was pending.
FinallyWrite ==
    WriteRecording(Recording /\ Len(recorded_frames) > 0, "IOError")

----
\* Thread.start(): the operator's stop request reaches the control thread only.
StopRequest ==
    /\ ~stopRequested
    /\ stopRequested' = TRUE
    /\ UNCHANGED <<pc, output_path, recorded_frames, porcupine, pa,
                   audio_stream, pcm, exc, cause, reads, read_calls, submitted,
                   detections, reactions, events, written, interruptVars,
                   readsAfterStop, callerVars, useVars>>

----
Next ==
    \/ Create
    \/ PyAudio
    \/ Open
    \/ Read
    \/ RecordFrame
    \/ Process
    \/ GetWeather
    \/ ExtractSpokenWeather
    \/ TextToSpeech
    \/ KeyboardInterrupt
    \/ FinallyDelete
    \/ FinallyClose
    \/ FinallyTerminate
    \/ FinallyWrite

Spec == Init /\ [][Next]_vars

NextThread ==
    \/ Create
    \/ PyAudio
    \/ Open
    \/ Read
    \/ RecordFrame
    \/ Process
    \/ GetWeather
    \/ ExtractSpokenWeather
    \/ TextToSpeech
    \/ FinallyDelete
    \/ FinallyClose
    \/ FinallyTerminate
    \/ FinallyWrite
    \/ StopRequest

SpecThread == Init /\ [][NextThread]_vars

----
\* A second run() on the same object: the locals of run() start afresh, the
\* attributes set by __init__ (self._output_path, self._recorded_frames) stay.
\* The logs kept per run (reads, events, written, ...) start afresh too.
Rerun ==
    /\ pc = "done"
    /\ runs < MaxRuns
    /\ runs' = runs + 1
    /\ pc' = "create"
    /\ porcupine' = "None"
    /\ pa' = "None"
    /\ audio_stream' = "None"
    /\ pcm' = <<>>
    /\ exc' = "none"
    /\ cause' = "none"
    /\ reads' = <<>>
    /\ read_calls' = 0
    /\ submitted' = <<>>
    /\ detections' = <<>>
    /\ reactions' = <<>>
    /\ events' = <<>>
    /\ written' = <<>>
    /\ interruptAt' = "none"
    /\ interruptCalls' = 0
    /\ stream_config' = [rate |-> 0, frames_per_buffer |-> 0]
    /\ stale_accesses' = 0
    /\ UNCHANGED <<output_path, recorded_frames, threadVars, args,
                   keyword_paths, sensitivities, listed, main_exc, frameCap>>

InitRerun ==
    /\ pc = "create"
    /\ output_path \in {"None", "out.wav"}
    /\ recorded_frames = <<>>
    /\ porcupine = "None"
    /\ pa = "None"
    /\ audio_stream = "None"
    /\ pcm = <<>>
    /\ exc = "none"
    /\ cause = "none"
    /\ reads = <<>>
    /\ read_calls = 0
    /\ submitted = <<>>
    /\ detections = <<>>
    /\ reactions = <<>>
    /\ events = <<>>
    /\ written = <<>>
    /\ interruptAt = "none"
    /\ interruptCalls = 0
    /\ stopRequested = FALSE
    /\ readsAfterStop = 0
    /\ stream_config = [rate |-> 0, frames_per_buffer |-> 0]
    /\ stale_accesses = 0
    /\ args = [show_audio_devices |-> FALSE, keywords |-> 0,
               keyword_paths |-> NumKeywords, sensitivities |-> 0]
    /\ keyword_paths = KeywordPaths(NumKeywords)
    /\ sensitivities = DefaultSensitivities(NumKeywords)
    /\ listed = 0
    /\ main_exc = "none"
    /\ runs = 1
    /\ frameCap = MaxRerunFrames

NextRerun ==
    \/ Next
    \/ Rerun

SpecRerun == InitRerun /\ [][NextRerun]_vars

----
\* main() after parse_args (lines 274-297).

\* `show` is the test of line 274; `counts_checked` tells whether the length
\* comparison of line 288 is made.  A valid configuration ends in the
\* constructor call of line 291, and run() starts.
ParseAndStart(show, counts_checked) ==
    /\ pc = "main"
    /\ IF show
       THEN /\ pc' = "show_devices"
            /\ UNCHANGED <<keyword_paths, sensitivities, main_exc>>
       ELSE IF args.keyword_paths = 0 /\ args.keywords = 0
       THEN /\ main_exc' = "ValueError"
            /\ pc' = "main_done"
            /\ UNCHANGED <<keyword_paths, sensitivities>>
       ELSE LET paths == KeywordPaths(IF args.keyword_paths = 0
                                      THEN args.keywords
                                      ELSE args.keyword_paths)
                sens == IF args.sensitivities = 0
                        THEN DefaultSensitivities(Len(paths))
                        ELSE GivenSensitivities(args.sensitivities)
            IN  IF counts_checked /\ Len(paths) # Len(sens)
                THEN /\ main_exc' = "ValueError"
                     /\ pc' = "main_done"
                     /\ UNCHANGED <<keyword_paths, sensitivities>>
                ELSE /\ keyword_paths' = paths
                     /\ sensitivities' = sens
                     /\ pc' = "create"
                     /\ UNCHANGED main_exc
    /\ UNCHANGED <<output_path, recorded_frames, porcupine, pa, audio_stream,
                   pcm, exc, cause, reads, read_calls, submitted, detections,
                   reactions, events, written, interruptVars, threadVars,
                   useVars, args, listed, runs, frameCap>>

\* Variant: --show_audio_devices is not looked at, a session always starts.
MainIgnoresShowFlag == ParseAndStart(FALSE, TRUE)

\* Variant: the comparison of the two list lengths is left out.
MainNoCountCheck == ParseAndStart(args.show_audio_devices, FALSE)

Main == ParseAndStart(args.show_audio_devices, TRUE)

\* PorcupineDemo.show_audio_devices(): its own PyAudio(), the listing, terminate.
ShowAudioDevices ==
    /\ pc = "show_devices"
    /\ \/ /\ listed' = listed + 1
          /\ UNCHANGED main_exc
       \/ /\ main_exc' = "BackendError"
          /\ UNCHANGED listed
    /\ pc' = "main_done"
    /\ UNCHANGED <<output_path, recorded_frames, porcupine, pa, audio_stream,
                   pcm, exc, cause, reads, read_calls, submitted, detections,
                   reactions, events, written, interruptVars, threadVars,
                   useVars, args, keyword_paths, sensitivities, runs, frameCap>>

InitMain ==
    /\ pc = "main"
    /\ args \in [show_audio_devices : BOOLEAN,
                 keywords : 0..NumKeywords,
                 keyword_paths : 0..NumKeywords,
                 sensitivities : 0..NumKeywords]
    /\ output_path \in {"None", "out.wav"}
    /\ keyword_paths = <<>>
    /\ sensitivities = <<>>
    /\ recorded_frames = <<>>
    /\ porcupine = "None"
    /\ pa = "None"
    /\ audio_stream = "None"
    /\ pcm = <<>>
    /\ exc = "none"
    /\ cause = "none"
    /\ reads = <<>>
    /\ read_calls = 0
    /\ submitted = <<>>
    /\ detections = <<>>
    /\ reactions = <<>>
    /\ events = <<>>
    /\ written = <<>>
    /\ interruptAt = "none"
    /\ interruptCalls = 0
    /\ stopRequested = FALSE
    /\ readsAfterStop = 0
    /\ stream_config = [rate |-> 0, frames_per_buffer |-> 0]
    /\ stale_accesses = 0
    /\ listed = 0
    /\ main_exc = "none"
    /\ runs = 1
    /\ frameCap = MaxMainFrames

NextMain ==
    \/ Main
    \/ ShowAudioDevices
    \/ Next

SpecMain == InitMain /\ [][NextMain]_vars

----
\* Properties.

Count(s, e) == Len(SelectSeq(s, LAMBDA x : x = e))

\* Every b in s has an a somewhere before it.
Precedes(s, a, b) ==
    \A i \in DOMAIN s : s[i] = b => \E j \in 1..(i - 1) : s[j] = a

WriteEvents == {"write", "write_failed"}
WriteAttempts == Len(SelectSeq(events, LAMBDA x : x \in WriteEvents))
Exited == pc \in FinallyPcs \cup {"done"}

\* The samples of a sequence of device buffers: sample n is the little-endian
\* signed 16-bit value of its two bytes, buffers in the order given.
Signed16(lo, hi) ==
    IF lo + 256 * hi >= 32768 THEN lo + 256 * hi - 65536 ELSE lo + 256 * hi

SamplesOf(chunks) ==
    [n \in 1..(Len(chunks) * FrameLength) |->
        LET k == ((n - 1) \div FrameLength) + 1
            j == ((n - 1) % FrameLength) + 1
        IN  Signed16(chunks[k][2 * j - 1], chunks[k][2 * j])]

\* frame holds the FrameLength samples of the device buffer bytes.
IsFrameOf(frame, bytes) ==
    /\ Len(frame) = FrameLength
    /\ \A j \in 1..FrameLength :
          frame[j] = Signed16(bytes[2 * j - 1], bytes[2 * j])

\* C1: on every exit path the detector is released, then the stream closed,
\* and only then the recording written (when it holds frames); release, close
\* and write each happen at most once per run, and when run() returns nothing
\* that was acquired is still live.
C1_ReleaseOrder ==
    /\ Count(events, "delete") <= 1
    /\ Count(events, "close") <= 1
    /\ WriteAttempts <= 1
    /\ Precedes(events, "delete", "close")
    /\ \A w \in WriteEvents :
          /\ Precedes(events, "delete", w)
          /\ Precedes(events, "close", w)
    /\ pc = "done" =>
          /\ porcupine # "live"
          /\ audio_stream # "open"
          /\ (Recording /\ Len(recorded_frames) > 0) => WriteAttempts = 1

C1_Witness ==
    /\ pc = "done"
    /\ cause = "DetectorError"
    /\ Len(events) >= 4
    /\ SubSeq(events, Len(events) - 3, Len(events))
          = <<"delete", "close", "terminate", "write">>

\* C2: a failure of the reaction pipeline (get_weather, extract_spoken_weather,
\* text_to_speech) does not end the detection loop and never leaves run().
C2_ReactionFailureIsolated ==
    /\ cause # "ReactionError"
    /\ exc # "ReactionError"

C4_RecordingEqualsSubmitted ==
    (Recording /\ Exited) => recorded_frames = submitted

\* C5: a StreamError on read M is the last read call (no retry, no further
\* frame); the detector is deleted and the stream closed once each; unless the
\* write itself fails, frames 1..M-1 are what is written (nothing when M = 1 or
\* recording is off) and the StreamError leaves run() after the cleanup.
C5_StreamErrorCleanup ==
    cause = "StreamError" =>
        /\ Exited
        /\ read_calls = Len(reads) + 1
        /\ pc # "done" => exc = "StreamError"
        /\ pc = "done" =>
              /\ porcupine = "deleted"
              /\ audio_stream = "closed"
              /\ Count(events, "delete") = 1
              /\ Count(events, "close") = 1
              /\ exc \in {"StreamError", "IOError"}
              /\ exc = "IOError" <=> Count(events, "write_failed") = 1
              /\ Count(events, "write_failed") = 0 =>
                    written = IF Recording /\ Len(reads) > 0
                              THEN <<SamplesOf(reads)>>
                              ELSE <<>>

C5_Witness ==
    /\ pc = "done"
    /\ cause = "StreamError"
    /\ Len(reads) = 2
    /\ reads[1] # reads[2]
    /\ Len(written) = 1
    /\ exc = "StreamError"

\* C6: an interrupt raised inside the loop ends it without another read call;
\* by the time the recording is finalized the detector has been deleted and the
\* stream closed exactly once each; the interrupt never leaves run(), which
\* returns normally unless the write of the recording fails.
C6_GracefulStop ==
    interruptAt \in LoopPcs =>
        /\ Exited
        /\ cause = "KeyboardInterrupt"
        /\ read_calls = interruptCalls
        /\ exc # "KeyboardInterrupt"
        /\ pc \in {"finally_write", "done"} =>
              /\ Count(events, "delete") = 1
              /\ Count(events, "close") = 1
              /\ \A w \in WriteEvents :
                    Precedes(events, "delete", w) /\ Precedes(events, "close", w)
        /\ pc = "done" =>
              /\ Count(events, "write_failed") = 0 => exc = "none"
              /\ Count(events, "write_failed") = 1 => exc = "IOError"

C6_Witness ==
    /\ pc = "done"
    /\ interruptAt = "tts"
    /\ exc = "none"
    /\ Len(reads) = 2
    /\ Count(events, "write") = 1

\* C7: once the control thread has the stop request, the worker's loop
\* completes at most one further frame read.
C7_StopBoundsReads ==
    stopRequested => readsAfterStop <= 1

\* C8: the frames submitted to the detector are the frames read, in order,
\* each once: submitted is a copy of a prefix of reads that lags by at most the
\* frame in hand, and frame K has been submitted whenever frame K+1 is read.
C8_ArrivalOrder ==
    /\ Len(submitted) <= Len(reads)
    /\ Len(reads) <= Len(submitted) + 1
    /\ \A i \in DOMAIN submitted : IsFrameOf(submitted[i], reads[i])
    /\ pc = "read" => Len(submitted) = Len(reads)
    /\ Len(reads) > Len(submitted) =>
          \/ pc \in {"append", "process"}
          \/ Exited /\ cause = "KeyboardInterrupt"

C8_Witness ==
    /\ Len(submitted) = 3
    /\ Len(reads) = 3
    /\ reads[1] # reads[2]
    /\ reads[2] = reads[3]

MatchPositions == {i \in DOMAIN detections : detections[i] # NO_MATCH}

C10_NoMatchNoReaction ==
    (\A i \in DOMAIN detections : detections[i] = NO_MATCH) =>
        /\ reactions = <<>>
        /\ pc \notin ReactionPcs

C10_Witness ==
    /\ Len(detections) >= 3
    /\ \A i \in DOMAIN detections : detections[i] = NO_MATCH
    /\ pc = "read"

\* What leaves run() when the finally block adds no error of its own.
PendingError == IF cause \in {"none", "KeyboardInterrupt"} THEN "none" ELSE cause

\* C11: the data written at finalize is exactly the concatenation, sample for
\* sample and in arrival order, of all the frames read during the session.
C11_WrittenIsAllFramesRead ==
    Count(events, "write") = 1 => written = <<SamplesOf(reads)>>

\* C12: a write is attempted only when an output path was given and at least
\* one frame was appended; with recording off or no frame appended nothing is
\* written and the finally block adds no error to what the try block left.
C12_WriteOnlyWithFrames ==
    /\ ~Recording => recorded_frames = <<>>
    /\ WriteAttempts > 0 => (Recording /\ Len(recorded_frames) > 0)
    /\ written # <<>> => (Recording /\ Len(recorded_frames) > 0)
    /\ (pc = "done" /\ (~Recording \/ recorded_frames = <<>>)) =>
          /\ WriteAttempts = 0
          /\ written = <<>>
          /\ exc = PendingError

C12_Witness ==
    /\ pc = "done"
    /\ Recording
    /\ cause = "StreamError"
    /\ read_calls = 1
    /\ recorded_frames = <<>>
    /\ porcupine = "deleted"

\* C14: when the write of the recording fails, the detector has already been
\* deleted, the stream closed and the backend terminated, nothing is stored,
\* and the write's IOError is what leaves run().
C14_WriteFailureAfterRelease ==
    Count(events, "write_failed") > 0 =>
        /\ pc = "done"
        /\ porcupine = "deleted"
        /\ audio_stream = "closed"
        /\ pa = "terminated"
        /\ Precedes(events, "delete", "write_failed")
        /\ Precedes(events, "close", "write_failed")
        /\ written = <<>>
        /\ exc = "IOError"

C14_Witness ==
    /\ Count(events, "write_failed") = 1
    /\ cause = "KeyboardInterrupt"
    /\ Len(recorded_frames) = 2

\* C18: after a startup failure cleanup releases what was acquired and nothing
\* else, and the startup error leaves run(): a failed create leaves no resource
\* call at all; a failed backend start deletes the detector only; a failed
\* open deletes the detector once and terminates the backend, and close is
\* never called.
C18_PartialStartupCleanup ==
    /\ cause = "InitError" =>
          /\ events = <<>>
          /\ written = <<>>
          /\ pc = "done" => exc = "InitError"
    /\ (cause = "BackendError" /\ pc = "done") =>
          /\ events = <<"create", "delete">>
          /\ written = <<>>
          /\ exc = "BackendError"
    /\ (cause = "DeviceError" /\ pc = "done") =>
          /\ events = <<"create", "pyaudio", "delete", "terminate">>
          /\ audio_stream = "None"
          /\ written = <<>>
          /\ exc = "DeviceError"

C18_Witness ==
    /\ pc = "done"
    /\ Recording
    /\ cause = "InitError"
    /\ porcupine = "None"
    /\ pa = "None"

\* C17: the stream is opened with the detector's sample rate and frame length;
\* every buffer read holds that many 16-bit samples, and every frame appended
\* to the recording or submitted to the detector has exactly FrameLength
\* samples, so after N iterations the recording holds N * FrameLength samples.
C17_FrameLengthContract ==
    /\ audio_stream # "None" =>
          stream_config = [rate |-> SampleRate, frames_per_buffer |-> FrameLength]
    /\ \A i \in DOMAIN reads :
          Len(reads[i]) = 2 * stream_config.frames_per_buffer
    /\ \A i \in DOMAIN recorded_frames : Len(recorded_frames[i]) = FrameLength
    /\ \A i \in DOMAIN submitted : Len(submitted[i]) = FrameLength
    /\ (Recording /\ pc = "read") =>
          /\ Len(recorded_frames) = Len(submitted)
          /\ Len(Concatenate(recorded_frames)) = Len(submitted) * FrameLength
    /\ \A i \in DOMAIN written :
          Len(written[i]) = Len(recorded_frames) * FrameLength

C17_Witness ==
    /\ Recording
    /\ pc = "read"
    /\ Len(submitted) = 3
    /\ Len(Concatenate(recorded_frames)) = 3 * FrameLength

\* C19: nothing is used after its release: no method or property of the
\* detector is touched once it has been deleted, and no statement of the try
\* block runs once the detector is deleted or the stream closed.
C19_NoUseAfterRelease ==
    /\ stale_accesses = 0
    /\ porcupine = "deleted" => pc \notin TryPcs
    /\ audio_stream = "closed" => pc \notin TryPcs

\* C15: the recording a run writes holds only frames read during that run
\* (the samples of the first n frames read by it, for some n), also when run()
\* is called again on the same object.
C15_RecordingOnlyThisRun ==
    \A i \in DOMAIN written :
        \E n \in 0..Len(reads) : written[i] = SamplesOf(SubSeq(reads, 1, n))

\* The number of keyword models main() ends up with, from its arguments.
RequestedKeywords ==
    IF args.keyword_paths # 0 THEN args.keyword_paths ELSE args.keywords

\* The configurations C13 calls errors.
BadConfiguration ==
    /\ ~args.show_audio_devices
    /\ \/ RequestedKeywords = 0
       \/ args.sensitivities # 0 /\ args.sensitivities # RequestedKeywords

NothingAcquired ==
    /\ porcupine = "None"
    /\ pa = "None"
    /\ audio_stream = "None"
    /\ events = <<>>
    /\ read_calls = 0
    /\ written = <<>>

\* C13: a configuration with neither keywords nor keyword paths, or with a
\* number of sensitivities different from the number of keyword paths, is
\* rejected with a ValueError before anything is created, opened or written;
\* a session that starts has one sensitivity per keyword, 0.5 each when none
\* were given.
C13_ConfigValidatedFirst ==
    /\ BadConfiguration =>
          /\ NothingAcquired
          /\ listed = 0
          /\ pc \in {"main", "main_done"}
          /\ pc = "main_done" => main_exc = "ValueError"
    /\ pc \notin MainPcs =>
          /\ Len(keyword_paths) = RequestedKeywords
          /\ Len(sensitivities) = Len(keyword_paths)
          /\ Len(keyword_paths) >= 1
          /\ main_exc = "none"
          /\ args.sensitivities = 0 =>
                \A i \in DOMAIN sensitivities : sensitivities[i] = "0.5"

C13_Witness ==
    /\ pc = "main_done"
    /\ main_exc = "ValueError"
    /\ args.keyword_paths = 2
    /\ args.sensitivities = 1
    /\ NothingAcquired

\* C16: with --show_audio_devices no detector is created, no stream opened and
\* no frame read; without it no device listing is made.
C16_ListingExcludesSession ==
    /\ args.show_audio_devices =>
          /\ NothingAcquired
          /\ pc \in MainPcs
    /\ ~args.show_audio_devices =>
          /\ listed = 0
          /\ pc # "show_devices"
    /\ listed <= 1

C16_Witness ==
    /\ pc = "main_done"
    /\ listed = 1
    /\ main_exc = "none"
    /\ NothingAcquired

====
